---- MODULE Spec2Model ----
(***************************************************************************)
(* Model of the MAST name resolver of PS1_DR2_TAP.ipynb: mastQuery and     *)
(* resolve, and the notebook cell that turns an object name into a         *)
(* positional TAP query.                                                   *)
(*                                                                         *)
(* Text is a sequence of characters; a character is a one-character        *)
(* string, except EAcute, which stands for the code point U+00E9.          *)
(* A Python/JSON value is a tagged record:                                 *)
(*   [t |-> "str", s |-> text]     [t |-> "num", n |-> number]             *)
(*   [t |-> "list", l |-> values]  [t |-> "null"]                          *)
(*   [t |-> "obj", m |-> sequence of <<key text, value>>, keys distinct]   *)
(***************************************************************************)
EXTENDS Integers, Sequences, FiniteSets, TLC

VARIABLES
    pc,           \* position of the running cell / call
    name,         \* argument of the running resolve call
    requestBody,  \* body handed to conn.request ("request=" + requestString)
    net,          \* what the remote service does with this request
    sock,         \* the HTTPS connection's socket: "none", "open", "closed"
    posts,        \* POST requests issued by the running call
    content,      \* decoded response text held by the call (parse state)
    resolvedObject, \* result of json.loads
    outcome,      \* how the resolve call ended
    query,        \* the cell's formatted query
    launched,     \* whether the cell called launch_job_async
    calls,        \* resolve calls started so far
    remote,       \* answers the remote service has given, by request body
    log           \* finished calls: name, request body, outcome

vars == <<pc, name, requestBody, net, sock, posts, content, resolvedObject,
          outcome, query, launched, calls, remote, log>>

----------------------------------------------------------------------------
(* Bounds *)

MaxNameLen == 2

MaxEntries == 2

MaxCalls == 3

----------------------------------------------------------------------------
(* Characters and text *)

EAcute == "U+00E9"

NameAlphabet == {"K", " ", "\"", "\\", "%", EAcute}

RECURSIVE TextsUpTo(_, _)
TextsUpTo(alphabet, n) ==
    IF n = 0 THEN {<<>>}
    ELSE LET shorter == TextsUpTo(alphabet, n - 1)
         IN  shorter \cup {Append(t, c) : t \in shorter, c \in alphabet}

Names == TextsUpTo(NameAlphabet, MaxNameLen)

JStr(text) == [t |-> "str", s |-> text]
JNum(k) == [t |-> "num", n |-> k]
JList(items) == [t |-> "list", l |-> items]
JObj(pairs) == [t |-> "obj", m |-> pairs]
JNull == [t |-> "null"]

KeyService == <<"s", "e", "r", "v", "i", "c", "e">>
KeyParams == <<"p", "a", "r", "a", "m", "s">>
KeyInput == <<"i", "n", "p", "u", "t">>
KeyFormat == <<"f", "o", "r", "m", "a", "t">>
TextLookup == <<"M", "a", "s", "t", ".", "N", "a", "m", "e", ".",
                "L", "o", "o", "k", "u", "p">>
TextJson == <<"j", "s", "o", "n">>
KeyResolvedCoordinate == <<"r", "e", "s", "o", "l", "v", "e", "d",
                           "C", "o", "o", "r", "d", "i", "n", "a", "t", "e">>
KeyRa == <<"r", "a">>
KeyDecl == <<"d", "e", "c", "l">>

----------------------------------------------------------------------------
(* json.dumps (ensure_ascii, default separators) *)

JsonEscapeCharRaw(c) == <<c>>

JsonEscapeChar(c) ==
    CASE c = "\"" -> <<"\\", "\"">>
      [] c = "\\" -> <<"\\", "\\">>
      [] c = EAcute -> <<"\\", "u", "0", "0", "e", "9">>
      [] OTHER -> <<c>>

RECURSIVE JsonEscape(_)
JsonEscape(text) ==
    IF text = <<>> THEN <<>>
    ELSE JsonEscapeChar(Head(text)) \o JsonEscape(Tail(text))

JsonString(text) == <<"\"">> \o JsonEscape(text) \o <<"\"">>

RECURSIVE JsonDumps(_)
RECURSIVE JsonMembers(_)
JsonMembers(pairs) ==
    IF pairs = <<>> THEN <<>>
    ELSE JsonString(Head(pairs)[1]) \o <<":", " ">> \o JsonDumps(Head(pairs)[2])
         \o (IF Len(pairs) > 1 THEN <<",", " ">> ELSE <<>>)
         \o JsonMembers(Tail(pairs))

JsonDumps(v) ==
    CASE v.t = "str" -> JsonString(v.s)
      [] v.t = "obj" -> <<"{">> \o JsonMembers(v.m) \o <<"}">>

----------------------------------------------------------------------------
(* urllib.parse.quote (safe = "/") and its inverse *)

Unreserved == {"a", "c", "e", "f", "i", "j", "k", "m", "n", "o", "p", "r", "s",
               "t", "u", "v", "K", "L", "M", "N", "0", "9", ".", "/"}

PercentCode(c) ==
    CASE c = " " -> <<"%", "2", "0">>
      [] c = "\"" -> <<"%", "2", "2">>
      [] c = "%" -> <<"%", "2", "5">>
      [] c = "," -> <<"%", "2", "C">>
      [] c = ":" -> <<"%", "3", "A">>
      [] c = "\\" -> <<"%", "5", "C">>
      [] c = "{" -> <<"%", "7", "B">>
      [] c = "}" -> <<"%", "7", "D">>

QuoteChar(c) == IF c \in Unreserved THEN <<c>> ELSE PercentCode(c)

\* The quoted characters text[lo..hi], joined (by halves, to keep the
\* evaluation shallow).
RECURSIVE QuoteRange(_, _, _)
QuoteRange(text, lo, hi) ==
    IF lo > hi THEN <<>>
    ELSE IF lo = hi THEN QuoteChar(text[lo])
    ELSE LET mid == (lo + hi) \div 2
         IN  QuoteRange(text, lo, mid) \o QuoteRange(text, mid + 1, hi)

urlencode(text) == QuoteRange(text, 1, Len(text))

Reserved == {" ", "\"", "%", ",", ":", "\\", "{", "}"}

\* The bytes a percent escape stands for; <<>> when it is no escape.
PercentDecode(code) ==
    LET hits == {c \in Reserved : PercentCode(c) = code}
    IN  IF hits = {} THEN <<>> ELSE <<CHOOSE c \in hits : TRUE>>

\* An escape starts at i: "%" and two hex digits of a known code.  The two
\* digits are no "%", so escapes never overlap.
EscapeAt(text, i) ==
    /\ i >= 1
    /\ i + 2 <= Len(text)
    /\ text[i] = "%"
    /\ PercentDecode(SubSeq(text, i, i + 2)) # <<>>

UnquoteAt(text, i) ==
    IF EscapeAt(text, i) THEN PercentDecode(SubSeq(text, i, i + 2))
    ELSE IF EscapeAt(text, i - 1) \/ EscapeAt(text, i - 2) THEN <<>>
    ELSE <<text[i]>>

RECURSIVE UnquoteRange(_, _, _)
UnquoteRange(text, lo, hi) ==
    IF lo > hi THEN <<>>
    ELSE IF lo = hi THEN UnquoteAt(text, lo)
    ELSE LET mid == (lo + hi) \div 2
         IN  UnquoteRange(text, lo, mid) \o UnquoteRange(text, mid + 1, hi)

Unquote(text) == UnquoteRange(text, 1, Len(text))

----------------------------------------------------------------------------
(* Decoding a request body again: form field, percent escapes, JSON text.  *)
(* Used to state the round trip of the request construction.               *)

ParseFail == [ok |-> FALSE, val |-> JNull, next |-> 0]
ParseHit(v, n) == [ok |-> TRUE, val |-> v, next |-> n]

RECURSIVE SkipSpace(_, _)
SkipSpace(s, i) == IF i <= Len(s) /\ s[i] = " " THEN SkipSpace(s, i + 1) ELSE i

RECURSIVE ScanString(_, _, _)
ScanString(s, i, acc) ==
    IF i > Len(s) THEN ParseFail
    ELSE IF s[i] = "\"" THEN ParseHit(JStr(acc), i + 1)
    ELSE IF s[i] = "\\"
         THEN IF i + 1 > Len(s) THEN ParseFail
              ELSE IF s[i + 1] \in {"\"", "\\"}
                   THEN ScanString(s, i + 2, Append(acc, s[i + 1]))
              ELSE IF s[i + 1] = "u" /\ i + 5 <= Len(s)
                      /\ SubSeq(s, i + 2, i + 5) = <<"0", "0", "e", "9">>
                   THEN ScanString(s, i + 6, Append(acc, EAcute))
              ELSE ParseFail
    ELSE ScanString(s, i + 1, Append(acc, s[i]))

RECURSIVE ParseValue(_, _)
RECURSIVE ParseMembers(_, _, _)
ParseMembers(s, i, acc) ==
    IF i > Len(s) THEN ParseFail
    ELSE IF s[i] = "}" /\ acc = <<>> THEN ParseHit(JObj(acc), i + 1)
    ELSE IF s[i] # "\"" THEN ParseFail
    ELSE LET k == ScanString(s, i + 1, <<>>)
             c == SkipSpace(s, k.next)
         IN  IF ~k.ok \/ c > Len(s) \/ s[c] # ":" THEN ParseFail
             ELSE LET v == ParseValue(s, c + 1)
                      e == SkipSpace(s, v.next)
                      got == Append(acc, <<k.val.s, v.val>>)
                  IN  IF ~v.ok \/ e > Len(s) THEN ParseFail
                      ELSE IF s[e] = "}" THEN ParseHit(JObj(got), e + 1)
                      ELSE IF s[e] = "," THEN ParseMembers(s, SkipSpace(s, e + 1), got)
                      ELSE ParseFail

ParseValue(s, i) ==
    LET j == SkipSpace(s, i)
    IN  IF j > Len(s) THEN ParseFail
        ELSE IF s[j] = "\"" THEN ScanString(s, j + 1, <<>>)
        ELSE IF s[j] = "{" THEN ParseMembers(s, SkipSpace(s, j + 1), <<>>)
        ELSE ParseFail

ParseJson(s) ==
    LET r == ParseValue(s, 1)
    IN  IF r.ok /\ SkipSpace(s, r.next) = Len(s) + 1 THEN r ELSE ParseFail

FormField == <<"r", "e", "q", "u", "e", "s", "t", "=">>

DecodeRequest(body) ==
    IF Len(body) >= Len(FormField) /\ SubSeq(body, 1, Len(FormField)) = FormField
    THEN ParseJson(Unquote(SubSeq(body, Len(FormField) + 1, Len(body))))
    ELSE ParseFail

\* The value stored under a key of a decoded object; JNull when absent.
Member(v, key) ==
    IF v.t = "obj" /\ \E i \in 1..Len(v.m) : v.m[i][1] = key
    THEN v.m[CHOOSE i \in 1..Len(v.m) : v.m[i][1] = key][2]
    ELSE JNull

Keys(v) == IF v.t = "obj" THEN {v.m[i][1] : i \in 1..Len(v.m)} ELSE {}

----------------------------------------------------------------------------
(* The remote service: what it does with one request *)

Statuses == {200, 500}

Degrees == {10, 20}

\* Entries of a resolvedCoordinate list: complete ones and incomplete ones.
EntryValues ==
    {JObj(<< <<KeyRa, JNum(a)>>, <<KeyDecl, JNum(30 - a)>> >>) : a \in Degrees}
    \cup {JObj(<< <<KeyRa, JNum(10)>> >>), JObj(<<>>)}

RECURSIVE ListsUpTo(_, _)
ListsUpTo(items, n) ==
    IF n = 0 THEN {<<>>}
    ELSE LET shorter == ListsUpTo(items, n - 1)
         IN  shorter \cup {Append(l, e) : l \in shorter, e \in items}

Resolved(v) == JObj(<< <<KeyResolvedCoordinate, v>> >>)

ResponseValues ==
    {Resolved(JList(l)) : l \in ListsUpTo(EntryValues, MaxEntries)}
    \cup {Resolved(JStr(<<>>)), Resolved(JStr(<<"x">>)), Resolved(JNull),
          Resolved(JList(<<JNull>>)), Resolved(JObj(<<>>)),
          JObj(<<>>), JList(<<>>), JNull}

\* fail: the step of mastQuery at which the transport fails ("none": a full
\* response arrives).  libCloses: http.client has let go of the socket by
\* itself when control is back in mastQuery (a failed handshake, a
\* ConnectionError in getresponse, a "Connection: close" response).
\* utf8 / json: whether the body decodes as UTF-8 / parses as JSON; value:
\* the parsed body.
Answer(f, c, st, u, j, v) ==
    [fail |-> f, libCloses |-> c, status |-> st, utf8 |-> u, json |-> j, value |-> v]

Answers ==
    {Answer("connect", TRUE, 0, TRUE, TRUE, JNull), Answer("send", FALSE, 0, TRUE, TRUE, JNull)}
    \cup {Answer(f, c, 0, TRUE, TRUE, JNull) : f \in {"response", "read"}, c \in BOOLEAN}
    \cup {Answer("none", c, st, FALSE, TRUE, JNull) : c \in BOOLEAN, st \in Statuses}
    \cup {Answer("none", c, st, TRUE, FALSE, JNull) : c \in BOOLEAN, st \in Statuses}
    \cup {Answer("none", c, st, TRUE, TRUE, v) : c \in BOOLEAN, st \in Statuses, v \in ResponseValues}

NoAnswer == Answer("", FALSE, 0, TRUE, TRUE, JNull)

----------------------------------------------------------------------------
(* Python subscription  v[k]  on parsed JSON values *)

Got(v) == [exc |-> "", val |-> v]
Exc(e) == [exc |-> e, val |-> JNull]

Subscript(v, k) ==
    CASE v.t = "obj" ->
            IF k.t = "str" /\ k.s \in Keys(v) THEN Got(Member(v, k.s)) ELSE Exc("KeyError")
      [] v.t = "list" ->
            IF k.t # "num" THEN Exc("TypeError")
            ELSE IF k.n < Len(v.l) THEN Got(v.l[k.n + 1]) ELSE Exc("IndexError")
      [] v.t = "str" ->
            IF k.t # "num" THEN Exc("TypeError")
            ELSE IF k.n < Len(v.s) THEN Got(JStr(<<v.s[k.n + 1]>>)) ELSE Exc("IndexError")
      [] OTHER -> Exc("TypeError")

\* Variant: the last entry of the list instead of the first.
FirstEntryFieldLast(obj, key) ==
    LET a == Subscript(obj, JStr(KeyResolvedCoordinate))
    IN  IF a.exc # "" THEN a
        ELSE LET b == Subscript(a.val, JNum(IF a.val.t = "list" /\ Len(a.val.l) > 0
                                            THEN Len(a.val.l) - 1 ELSE 0))
             IN  IF b.exc # "" THEN b ELSE Subscript(b.val, JStr(key))

\* resolvedObject['resolvedCoordinate'][0][key]
FirstEntryField(obj, key) ==
    LET a == Subscript(obj, JStr(KeyResolvedCoordinate))
    IN  IF a.exc # "" THEN a
        ELSE LET b == Subscript(a.val, JNum(0))
             IN  IF b.exc # "" THEN b ELSE Subscript(b.val, JStr(key))

UnknownPrefix == <<"U", "n", "k", "n", "o", "w", "n", " ",
                   "o", "b", "j", "e", "c", "t", " ", "'">>

UnknownMessage(n) == UnknownPrefix \o n \o <<"'">>

resolverRequest(n) ==
    JObj(<< <<KeyService, JStr(TextLookup)>>,
            <<KeyParams, JObj(<< <<KeyInput, JStr(n)>>, <<KeyFormat, JStr(TextJson)>> >>)>> >>)

requestString(request) == urlencode(JsonDumps(request))

PostBody(request) == FormField \o requestString(request)

----------------------------------------------------------------------------
(* State *)

NoOutcome == [kind |-> "none", exc |-> "", msg |-> <<>>, value |-> <<>>]
Returned(v) == [kind |-> "return", exc |-> "", msg |-> <<>>, value |-> v]
Raised(e, m) == [kind |-> "raise", exc |-> e, msg |-> m, value |-> <<>>]

Init ==
    /\ pc = "idle"
    /\ name = <<>>
    /\ requestBody = <<>>
    /\ net = NoAnswer
    /\ sock = "none"
    /\ posts = 0
    /\ content = "none"
    /\ resolvedObject = JNull
    /\ outcome = NoOutcome
    /\ query = <<>>
    /\ launched = FALSE
    /\ calls = 0
    /\ remote = <<>>
    /\ log = {}

\* The call ends: its outcome is recorded.
EndCall(o) ==
    /\ outcome' = o
    /\ pc' = IF o.kind = "return" THEN "returned" ELSE "raised"
    /\ log' = log \cup {[name |-> name, body |-> requestBody, outcome |-> o]}


----------------------------------------------------------------------------
(* The cell "Get DR2 light curve": ra, dec = resolve(objname); format the  *)
(* query; launch_job_async(query).  resolve and mastQuery run inside it.   *)

\* The cell starts and calls resolve(n): resolverRequest is built, mastQuery
\* serialises it and creates the connection object (no socket yet).
RunCell(names, limit) ==
    /\ pc \in {"idle", "done", "aborted"}
    /\ calls < limit
    /\ \E n \in names :
         /\ name' = n
         /\ requestBody' = PostBody(resolverRequest(n))
    /\ net' = NoAnswer
    /\ calls' = calls + 1
    /\ sock' = "none"
    /\ posts' = 0
    /\ content' = "none"
    /\ resolvedObject' = JNull
    /\ outcome' = NoOutcome
    /\ query' = <<>>
    /\ launched' = FALSE
    /\ pc' = "request"
    /\ UNCHANGED <<remote, log>>

\* The remote service meets the request: it answers a body it has seen
\* before as it did then.
Serve(answers) ==
    \E a \in (IF requestBody \in DOMAIN remote THEN {remote[requestBody]} ELSE answers) :
        /\ net' = a
        /\ remote' = [b \in DOMAIN remote \cup {requestBody} |->
                        IF b = requestBody THEN a ELSE remote[b]]

\* Variant: a failed request is sent once more.
ConnRequestRetry(answers) ==
    /\ pc = "request"
    /\ Serve(answers)
    /\ posts' = posts + 1
    /\ IF net'.fail \in {"connect", "send"} /\ posts = 0
       THEN /\ sock' = IF net'.fail = "send" THEN "open" ELSE sock
            /\ UNCHANGED <<pc, outcome, log>>
       ELSE IF net'.fail = "connect"
       THEN /\ EndCall(Raised("OSError", <<>>))
            /\ UNCHANGED sock
       ELSE IF net'.fail = "send"
       THEN /\ sock' = "open"
            /\ EndCall(Raised("OSError", <<>>))
       ELSE /\ sock' = "open"
            /\ pc' = "getresponse"
            /\ UNCHANGED <<outcome, log>>
    /\ UNCHANGED <<name, requestBody, content, resolvedObject, query, launched, calls>>

\* conn.request("POST", "/api/v0/invoke", "request=" + requestString, headers)
ConnRequest(answers) ==
    /\ pc = "request"
    /\ Serve(answers)
    /\ posts' = posts + 1
    /\ IF net'.fail = "connect"
       THEN /\ EndCall(Raised("OSError", <<>>))
            /\ UNCHANGED sock
       ELSE IF net'.fail = "send"
       THEN /\ sock' = "open"
            /\ EndCall(Raised("OSError", <<>>))
       ELSE /\ sock' = "open"
            /\ pc' = "getresponse"
            /\ UNCHANGED <<outcome, log>>
    /\ UNCHANGED <<name, requestBody, content, resolvedObject, query, launched, calls>>

\* resp = conn.getresponse()
GetResponse ==
    /\ pc = "getresponse"
    /\ IF net.fail = "response"
       THEN /\ sock' = IF net.libCloses THEN "closed" ELSE sock
            /\ EndCall(Raised("HTTPException", <<>>))
       ELSE /\ pc' = "read"
            /\ UNCHANGED <<sock, outcome, log>>
    /\ UNCHANGED <<name, requestBody, net, posts, content, resolvedObject, query,
                   launched, calls, remote>>

\* head = resp.getheaders(); content = resp.read().decode('utf-8')
ReadDecode ==
    /\ pc = "read"
    /\ sock' = IF net.libCloses THEN "closed" ELSE sock
    /\ IF net.fail = "read"
       THEN /\ EndCall(Raised("IncompleteRead", <<>>))
            /\ UNCHANGED content
       ELSE IF ~net.utf8
       THEN /\ EndCall(Raised("UnicodeDecodeError", <<>>))
            /\ UNCHANGED content
       ELSE /\ content' = IF net.json THEN "json" ELSE "text"
            /\ pc' = "close"
            /\ UNCHANGED <<outcome, log>>
    /\ UNCHANGED <<name, requestBody, net, posts, resolvedObject, query, launched,
                   calls, remote>>

\* conn.close(); return head, content
ConnClose ==
    /\ pc = "close"
    /\ sock' = "closed"
    /\ pc' = "loads"
    /\ UNCHANGED <<name, requestBody, net, posts, content, resolvedObject, outcome,
                   query, launched, calls, remote, log>>

\* resolvedObject = json.loads(resolvedObjectString)
JsonLoads ==
    /\ pc = "loads"
    /\ IF content = "json"
       THEN /\ resolvedObject' = net.value
            /\ pc' = "extract"
            /\ UNCHANGED <<outcome, log>>
       ELSE /\ EndCall(Raised("JSONDecodeError", <<>>))
            /\ UNCHANGED resolvedObject
    /\ UNCHANGED <<name, requestBody, net, sock, posts, content, query, launched,
                   calls, remote>>

\* Variant: the error names the URL-quoted name.
ErrorNameQuoted(n) == urlencode(n)

ErrorName(n) == n

\* The exception the try block turns into ValueError("Unknown object ...").
Converted == {"IndexError"}

\* Variant: an empty result is swallowed into a pair of None.
ExtractOutcomeSwallow(obj, n) ==
    LET objRa == FirstEntryField(obj, KeyRa)
        objDec == FirstEntryField(obj, KeyDecl)
        e == IF objRa.exc # "" THEN objRa.exc ELSE objDec.exc
    IN  IF e = "" THEN Returned(<<objRa.val, objDec.val>>)
        ELSE IF e \in Converted THEN Returned(<<JNull, JNull>>)
        ELSE Raised(e, <<>>)

\* Variant: the last coordinate found is kept and handed out for any name.
ExtractOutcomeCached(obj, n) ==
    LET objRa == FirstEntryField(obj, KeyRa)
        objDec == FirstEntryField(obj, KeyDecl)
        e == IF objRa.exc # "" THEN objRa.exc ELSE objDec.exc
        kept == {r.outcome : r \in {q \in log : q.outcome.kind = "return"}}
    IN  IF kept # {} THEN CHOOSE o \in kept : TRUE
        ELSE IF e = "" THEN Returned(<<objRa.val, objDec.val>>)
        ELSE IF e \in Converted THEN Raised("ValueError", UnknownMessage(ErrorName(n)))
        ELSE Raised(e, <<>>)

\* try: objRa = ...['ra']; objDec = ...['decl']
\* except IndexError: raise ValueError("Unknown object '{}'".format(name))
\* return (objRa, objDec)
ExtractOutcome(obj, n) ==
    LET objRa == FirstEntryField(obj, KeyRa)
        objDec == FirstEntryField(obj, KeyDecl)
        e == IF objRa.exc # "" THEN objRa.exc ELSE objDec.exc
    IN  IF e = "" THEN Returned(<<objRa.val, objDec.val>>)
        ELSE IF e \in Converted THEN Raised("ValueError", UnknownMessage(ErrorName(n)))
        ELSE Raised(e, <<>>)

Extract ==
    /\ pc = "extract"
    /\ EndCall(ExtractOutcome(resolvedObject, name))
    /\ UNCHANGED <<name, requestBody, net, sock, posts, content, resolvedObject,
                   query, launched, calls, remote>>

\* Variant: the exception is swallowed and the cell goes on.
CellAbortContinue ==
    /\ pc = "raised"
    /\ query' = <<JNull, JNull>>
    /\ pc' = "launch"
    /\ UNCHANGED <<name, requestBody, net, sock, posts, content, resolvedObject,
                   outcome, launched, calls, remote, log>>

\* An exception of resolve leaves the cell: the rest of the cell does not run.
CellAbort ==
    /\ pc = "raised"
    /\ pc' = "aborted"
    /\ UNCHANGED <<name, requestBody, net, sock, posts, content, resolvedObject,
                   outcome, query, launched, calls, remote, log>>

\* ra, dec = <returned tuple>; query = """...""".format(ra, dec, radius)
FormatQuery ==
    /\ pc = "returned"
    /\ query' = outcome.value
    /\ pc' = "launch"
    /\ UNCHANGED <<name, requestBody, net, sock, posts, content, resolvedObject,
                   outcome, launched, calls, remote, log>>

\* job = TAP_service.launch_job_async(query)
LaunchJob ==
    /\ pc = "launch"
    /\ launched' = TRUE
    /\ pc' = "done"
    /\ UNCHANGED <<name, requestBody, net, sock, posts, content, resolvedObject,
                   outcome, query, calls, remote, log>>

Steps ==
    \/ GetResponse
    \/ ReadDecode
    \/ ConnClose
    \/ JsonLoads
    \/ Extract
    \/ CellAbort
    \/ FormatQuery
    \/ LaunchJob

\* One run of the cell, any name, any behaviour of the remote service.
Next == RunCell(Names, 1) \/ ConnRequest(Answers) \/ Steps

Spec == Init /\ [][Next]_vars

\* A session of runs against a remote service whose answers do not change.
SessionNames == {<<>>, <<"K">>, <<"\"">>}

SessionValues ==
    {Resolved(JList(l)) : l \in ListsUpTo(EntryValues, 1)} \cup {JObj(<<>>)}

SessionAnswers ==
    {a \in Answers : a.status # 500 /\ ~a.libCloses /\ (a.value = JNull \/ a.value \in SessionValues)}

NextSession == RunCell(SessionNames, MaxCalls) \/ ConnRequest(SessionAnswers) \/ Steps

SpecSession == Init /\ [][NextSession]_vars

----------------------------------------------------------------------------
(* Properties *)

CallEnded == outcome.kind # "none"

\* A full response arrived, decoded as UTF-8 and parsed as JSON.
Parsed == net.fail = "none" /\ net.utf8 /\ net.json

\* The parsed response is an object holding a list under resolvedCoordinate.
HasResolvedList ==
    /\ Parsed
    /\ net.value.t = "obj"
    /\ KeyResolvedCoordinate \in Keys(net.value)
    /\ Member(net.value, KeyResolvedCoordinate).t = "list"

ResolvedList == Member(net.value, KeyResolvedCoordinate).l

HasEntry == HasResolvedList /\ Len(ResolvedList) >= 1

IsUnknownObject(o) ==
    /\ o.kind = "raise"
    /\ o.exc = "ValueError"
    /\ Len(o.msg) > Len(UnknownPrefix)
    /\ SubSeq(o.msg, 1, Len(UnknownPrefix)) = UnknownPrefix

\* C1: a Coordinate is returned only if the parsed response holds at least
\* one entry in its resolvedCoordinate list; a call that ended in any other
\* case ended in a failure and produced no Coordinate.
C1_CoordinateOnlyFromEntry ==
    /\ outcome.kind = "return" => HasEntry /\ Len(outcome.value) = 2
    /\ CallEnded /\ ~HasEntry => outcome.kind = "raise" /\ outcome.value = <<>>

C1_Witness ==
    /\ outcome.kind = "return"
    /\ HasEntry
    /\ pc = "returned"

\* C2: when the response holds an empty resolvedCoordinate list, the call
\* fails with ValueError "Unknown object '<name>'", the name being exactly
\* the argument of the call.
C2_UnknownObjectNamesInput ==
    CallEnded /\ HasResolvedList /\ Len(ResolvedList) = 0 =>
        /\ outcome = Raised("ValueError", UnknownPrefix \o name \o <<"'">>)
        /\ SubSeq(outcome.msg, Len(UnknownPrefix) + 1, Len(outcome.msg) - 1) = name

C2_Witness ==
    /\ CallEnded
    /\ HasResolvedList
    /\ Len(ResolvedList) = 0
    /\ name = <<"K", " ">>
    /\ IsUnknownObject(outcome)

\* The first entry of the list is an object holding ra and decl.
FirstEntryComplete ==
    /\ HasEntry
    /\ ResolvedList[1].t = "obj"
    /\ {KeyRa, KeyDecl} \subseteq Keys(ResolvedList[1])

C4_ClosedOnEveryExit == CallEnded => sock # "open"

\* C5: a call issues one POST request and never a second one; when it has
\* ended, whatever the failure, exactly one was issued.
C5_ExactlyOnePost ==
    /\ posts <= 1
    /\ CallEnded => posts = 1

C5_Witness ==
    /\ CallEnded
    /\ outcome.kind = "raise"
    /\ net.fail = "send"
    /\ posts = 1
    /\ pc = "aborted"

\* C6: against a remote service whose answers do not change, calls with
\* the same name send the same request and end in the same outcome,
\* whatever calls came before.
C6_SameNameSameOutcome ==
    \A r1 \in log : \A r2 \in log :
        r1.name = r2.name => r1.body = r2.body /\ r1.outcome = r2.outcome

\* Calls with the same name were made and ended, with other calls made too.
C6_Witness ==
    /\ calls = 3
    /\ pc \in {"done", "aborted"}
    /\ Cardinality(log) = 2
    /\ \E r \in log : r.outcome.kind = "return"
    /\ \E r \in log : r.outcome.kind = "raise"

\* C7: the request body a call has built and is about to send, decoded
\* again (form field, percent escapes, JSON), is the object {service: "Mast.Name.Lookup",
\* params: {input: <name>, format: "json"}} with exactly the name given.
C7_RequestRoundTrip ==
    pc = "request" =>
        LET d == DecodeRequest(requestBody)
            params == Member(d.val, KeyParams)
        IN  /\ d.ok
            /\ Keys(d.val) = {KeyService, KeyParams}
            /\ Len(d.val.m) = 2
            /\ Member(d.val, KeyService) = JStr(TextLookup)
            /\ Keys(params) = {KeyInput, KeyFormat}
            /\ Len(params.m) = 2
            /\ Member(params, KeyInput) = JStr(name)
            /\ Member(params, KeyFormat) = JStr(TextJson)

C7_Witness ==
    /\ pc = "request"
    /\ name = <<"\\", "\"">>
    /\ DecodeRequest(requestBody).ok

\* C8 (as claimed): the Unknown-object error is raised if and only if the
\* response was received, parsed and holds an empty resolvedCoordinate list;
\* every other failing case ends in a failure that is not that error.
C8_UnknownOnlyForEmptyList ==
    CallEnded =>
        /\ IsUnknownObject(outcome) <=> (HasResolvedList /\ Len(ResolvedList) = 0)
        /\ ~HasEntry /\ ~(HasResolvedList /\ Len(ResolvedList) = 0) =>
              outcome.kind = "raise" /\ ~IsUnknownObject(outcome)

\* C9: the positional query is formatted and launched only after resolve
\* returned a Coordinate; when resolve failed, no query is formatted and
\* launch_job_async is not called.
C9_NoQueryAfterFailure ==
    /\ outcome.kind = "raise" => query = <<>> /\ ~launched
    /\ query # <<>> \/ launched => outcome.kind = "return" /\ query = outcome.value
    /\ launched => query # <<>>

C9_Witness ==
    /\ pc = "aborted"
    /\ outcome.kind = "raise"
    /\ query = <<>>
    /\ ~launched

\* C10 (as claimed): when the response status is not 2xx, the call ends in
\* a failure and returns no Coordinate, whatever the body holds.
C10_Non2xxFails ==
    CallEnded /\ net.fail = "none" /\ net.status \notin 200..299 => outcome.kind = "raise"

====
